---- MODULE Spec2Model ----
(***************************************************************************)
(* A model of the "daily" reminder manager: the zustand store             *)
(* (src/src/store.ts), the recurrence expansion and the delete/submit     *)
(* handlers of the form (src/src/components/ReminderForm.tsx) and the     *)
(* bucket classification of the list (src/src/components/ReminderList.tsx)*)
(*                                                                         *)
(* Time.  An instant is a number of seconds of local time since           *)
(* Sunday 2023-01-01 00:00:00 (JavaScript Dates scaled from milliseconds  *)
(* to seconds; the local zone is taken to have no daylight-saving shift). *)
(* A day number is instant \div Day; day 0 is a Sunday.                   *)
(***************************************************************************)
EXTENDS Integers, Sequences, FiniteSets, TLC

VARIABLES
    reminders,      \* store.ts AppState.reminders: the occurrences, in insertion order
    bannerMessages, \* store.ts AppState.bannerMessages
    observed,       \* the store states the last handler published to the subscribers
    timers,         \* store.ts line 123: the banner ids whose 5-second timer is pending
    completingAll,  \* PerDayReminderGroup: the Complete All that waits for its commit
    now,            \* the clock: what new Date() returns
    expansion       \* one call of generateRecurringDates: its inputs and its result

vars == <<reminders, bannerMessages, observed, timers, completingAll, now, expansion>>

----------------------------------------------------------------------------
(* date-fns and Date arithmetic                                            *)

Minute == 60
Hour == 60 * Minute
Day == 24 * Hour

startOfDay(t) == (t \div Day) * Day

\* 23:59:59.999 of the day: the last representable instant of the day
endOfDay(t) == startOfDay(t) + Day - 1

timeOfDay(t) == t % Day

dayNumber(t) == t \div Day

\* Date.prototype.getDay: 0 = Sunday
getDay(t) == dayNumber(t) % 7

addDays(t, n) == t + n * Day

addWeeks(t, n) == addDays(t, 7 * n)

addMinutes(t, n) == t + n * Minute

subDays(t, n) == t - n * Day

isBefore(a, b) == a < b

isAfter(a, b) == a > b

isSameDay(a, b) == startOfDay(a) = startOfDay(b)

\* date-fns isToday(d) is isSameDay(d, Date.now())
isToday(t, clock) == isSameDay(t, clock)

\* endOfWeek with the default weekStartsOn = 0: Saturday 23:59:59.999
endOfWeek(t) == endOfDay(addDays(t, 6 - getDay(t)))

isSameMinute(a, b) == a \div Minute = b \div Minute

(* The Gregorian calendar, for getDate, addMonths and addYears.            *)

isLeapYear(y) == (y % 4 = 0 /\ y % 100 # 0) \/ y % 400 = 0

daysInYear(y) == IF isLeapYear(y) THEN 366 ELSE 365

\* m is a JavaScript month, 0 = January
daysInMonth(y, m) ==
    IF m \in {3, 5, 8, 10} THEN 30
    ELSE IF m = 1 THEN (IF isLeapYear(y) THEN 29 ELSE 28)
    ELSE 31

RECURSIVE yearOfDay(_, _)
\* <<year, day of the year (0-based)>> of the d-th day counted from 1 January of y
yearOfDay(d, y) ==
    IF d < daysInYear(y) THEN <<y, d>> ELSE yearOfDay(d - daysInYear(y), y + 1)

RECURSIVE monthOfDay(_, _, _)
\* <<month, day of the month (1-based)>> of the d-th day counted from the 1st of m
monthOfDay(y, d, m) ==
    IF d < daysInMonth(y, m) THEN <<m, d + 1>>
    ELSE monthOfDay(y, d - daysInMonth(y, m), m + 1)

getFullYear(t) == yearOfDay(dayNumber(t), 2023)[1]

getMonth(t) ==
    LET yd == yearOfDay(dayNumber(t), 2023) IN monthOfDay(yd[1], yd[2], 0)[1]

\* Date.prototype.getDate: the day of the month, 1..31
getDate(t) ==
    LET yd == yearOfDay(dayNumber(t), 2023) IN monthOfDay(yd[1], yd[2], 0)[2]

RECURSIVE daysBeforeYear(_)
daysBeforeYear(y) == IF y <= 2023 THEN 0 ELSE daysBeforeYear(y - 1) + daysInYear(y - 1)

RECURSIVE daysBeforeMonth(_, _)
daysBeforeMonth(y, m) == IF m = 0 THEN 0 ELSE daysBeforeMonth(y, m - 1) + daysInMonth(y, m - 1)

\* new Date(y, m, d) at the time of day tod
makeDate(y, m, d, tod) == (daysBeforeYear(y) + daysBeforeMonth(y, m) + d - 1) * Day + tod

\* date-fns addMonths: the same day of the month, or the last day of the target
\* month when that month is shorter
addMonths(t, n) ==
    LET total == getFullYear(t) * 12 + getMonth(t) + n
        y == total \div 12
        m == total % 12
        d == getDate(t)
        dim == daysInMonth(y, m)
    IN  makeDate(y, m, IF d >= dim THEN dim ELSE d, timeOfDay(t))

\* date-fns addYears(d, n) is addMonths(d, 12 n)
addYears(t, n) == addMonths(t, 12 * n)

----------------------------------------------------------------------------
(* ReminderForm.tsx: generateRecurringDates                                *)

\* the longest list of dates a loop of generateRecurringDates is followed for
MaxDates == 150

NoInterval == 0

RecurrenceTypes ==
    {"none", "daily", "alternate", "weekly", "monthly", "yearly", "custom", "per-day"}

\* Math.ceil(a / b) for a >= 0 and b > 0
ceilDiv(a, b) == (a + b - 1) \div b

\* lines 69-74: a start in the past is moved forward by whole intervals
skipForward(currentDate, clock, interval) ==
    IF isBefore(currentDate, clock)
    THEN LET minutesSinceStart == (clock - currentDate) \div Minute
             intervalsToSkip == ceilDiv(minutesSinceStart, interval)
         IN  addMinutes(currentDate, intervalsToSkip * interval)
    ELSE currentDate

RECURSIVE perDayLoop(_, _, _, _, _)
\* lines 76-85: the while loop of the per-day branch
perDayLoop(currentDate, endDateTime, time, interval, dates) ==
    IF ~(currentDate <= endDateTime) \/ Len(dates) >= MaxDates THEN dates
    ELSE LET next == addMinutes(currentDate, interval)
             restarted == IF getDate(next) # getDate(currentDate)
                          THEN startOfDay(next) + time
                          ELSE next
         IN  perDayLoop(restarted, endDateTime, time, interval, Append(dates, currentDate))

RECURSIVE findIndexGreater(_, _, _)
\* customDays.findIndex(day => day > currentDay), 1-based; 0 when there is none
findIndexGreater(customDays, currentDay, i) ==
    IF i > Len(customDays) THEN 0
    ELSE IF customDays[i] > currentDay THEN i
    ELSE findIndexGreater(customDays, currentDay, i + 1)

\* lines 96-123: the switch that advances currentDate
nextDate(currentDate, recurrenceType, customDays) ==
    CASE recurrenceType = "daily" -> addDays(currentDate, 1)
      [] recurrenceType = "alternate" -> addDays(currentDate, 2)
      [] recurrenceType = "weekly" -> addWeeks(currentDate, 1)
      [] recurrenceType = "monthly" -> addMonths(currentDate, 1)
      [] recurrenceType = "yearly" -> addYears(currentDate, 1)
      [] recurrenceType = "custom" ->
            IF Len(customDays) > 0
            THEN LET currentDay == getDay(currentDate)
                     nextDayIndex == findIndexGreater(customDays, currentDay, 1)
                 IN  IF nextDayIndex # 0
                     THEN addDays(currentDate, customDays[nextDayIndex] - currentDay)
                     ELSE addDays(currentDate, 7 - currentDay + customDays[1])
            ELSE currentDate
      [] OTHER -> currentDate

RECURSIVE datesLoopExclusive(_, _, _, _, _)
\* datesLoop with the end date excluded (currentDate < endDate)
datesLoopExclusive(currentDate, endDate, recurrenceType, customDays, dates) ==
    IF ~(currentDate < endDate) \/ Len(dates) >= MaxDates THEN dates
    ELSE datesLoopExclusive(nextDate(currentDate, recurrenceType, customDays), endDate,
                            recurrenceType, customDays, Append(dates, currentDate))

RECURSIVE datesLoop(_, _, _, _, _)
\* lines 93-124: the while loop of the other recurrence types
datesLoop(currentDate, endDate, recurrenceType, customDays, dates) ==
    IF ~(currentDate <= endDate) \/ Len(dates) >= MaxDates THEN dates
    ELSE datesLoop(nextDate(currentDate, recurrenceType, customDays), endDate,
                   recurrenceType, customDays, Append(dates, currentDate))

RECURSIVE datesLoopEnds(_, _, _, _, _)
\* lines 93-124: whether the while loop comes to its end.  A turn that leaves
\* currentDate as it was (line 113: custom without customDays) is followed by
\* the same turn for ever; a loop still running after MaxDates turns is not
\* followed further.
datesLoopEnds(currentDate, endDate, recurrenceType, customDays, turns) ==
    IF ~(currentDate <= endDate) THEN TRUE
    ELSE IF nextDate(currentDate, recurrenceType, customDays) = currentDate THEN FALSE
    ELSE IF turns >= MaxDates THEN FALSE
    ELSE datesLoopEnds(nextDate(currentDate, recurrenceType, customDays), endDate,
                       recurrenceType, customDays, turns + 1)

\* whether the call of generateRecurringDates returns: the per-day loop moves
\* by a positive interval, the other loop is datesLoopEnds
generateRecurringDatesReturns(startDate, endDate, recurrenceType, customDays, interval) ==
    IF recurrenceType = "per-day"
    THEN interval = NoInterval \/ interval > 0
    ELSE datesLoopEnds(startDate, endDate, recurrenceType, customDays, 0)

\* time is the form's time field (seconds into the day), clock is new Date()
generateRecurringDates(startDate, endDate, recurrenceType, customDays, interval, time, clock) ==
    IF recurrenceType = "per-day"
    THEN IF interval = NoInterval THEN <<>>
         ELSE perDayLoop(skipForward(startOfDay(startDate) + time, clock, interval),
                         endOfDay(endDate), time, interval, <<>>)
    ELSE datesLoop(startDate, endDate, recurrenceType, customDays, <<>>)

(* The inputs the expansion is explored on.                                *)

\* the end date is at most this many days after the start date
MaxSpan == 8

\* and at most this many for a per-day template, whose default end date is the
\* start date itself (lines 36-41)
MaxPerDaySpan == 2

\* Thursday 5 January 2023 and Tuesday 31 January 2023
FormDates == {4, 30}

FormTimes == {9 * Hour, 23 * Hour}

\* values the interval select of the form offers (lines 373-380)
FormIntervals == {30, 360}

\* weekday lists in the order the day buttons were clicked (lines 424-430)
FormCustomDays == {<<1, 3>>, <<3, 1>>, <<5>>, <<0, 6>>}

\* end dates further away: 60 days after the start date (from 31 January,
\* 1 April)
FormLongSpans == {60}

ExpansionClocks ==
    { 3 * Day + 12 * Hour,
      4 * Day + 10 * Hour + 7 * Minute,
      4 * Day + 10 * Hour + 30,
      4 * Day + 23 * Hour + 30 * Minute }

ExpansionInputs ==
    { [date |-> d, time |-> t, endDate |-> d + e, type |-> ty, customDays |-> cd,
       interval |-> iv, clock |-> c, called |-> FALSE, returned |-> FALSE,
       dates |-> <<>>] :
        d \in FormDates, t \in FormTimes, e \in ((-1)..MaxSpan) \cup FormLongSpans,
        ty \in RecurrenceTypes \ {"none"},
        cd \in FormCustomDays \cup {<<>>}, iv \in FormIntervals \cup {NoInterval},
        c \in ExpansionClocks }

\* lines 131-138 and 336, 429: customDays exists only for custom (where the
\* user may have chosen no day), the interval is passed only for per-day
WellFormedInput(x) ==
    /\ x.customDays # <<>> => x.type = "custom"
    /\ (x.type = "per-day") = (x.interval # NoInterval)
    /\ x.type = "per-day" => x.endDate <= x.date + MaxPerDaySpan

Idle == [called |-> FALSE]

InitExpand ==
    /\ expansion \in {x \in ExpansionInputs : WellFormedInput(x)}
    /\ reminders = <<>>
    /\ bannerMessages = <<>>
    /\ observed = <<>>
    /\ timers = <<>>
    /\ completingAll = [title |-> "", ids |-> <<>>]
    /\ now = expansion.clock

\* lines 131-132 and 158-164: handleSubmit calls generateRecurringDates; a
\* call whose loop has no end does not return and hands over no dates
Expand ==
    /\ ~expansion.called
    /\ expansion' =
          IF generateRecurringDatesReturns(
                 expansion.date * Day + expansion.time,
                 expansion.endDate * Day + expansion.time,
                 expansion.type, expansion.customDays, expansion.interval)
          THEN [expansion EXCEPT
                  !.called = TRUE,
                  !.returned = TRUE,
                  !.dates = generateRecurringDates(
                               expansion.date * Day + expansion.time,
                               expansion.endDate * Day + expansion.time,
                               expansion.type, expansion.customDays, expansion.interval,
                               expansion.time, expansion.clock)]
          ELSE [expansion EXCEPT !.called = TRUE]
    /\ UNCHANGED <<reminders, bannerMessages, observed, timers, completingAll, now>>

NextExpand == Expand

SpecExpand == InitExpand /\ [][NextExpand]_vars

----------------------------------------------------------------------------
(* store.ts: the zustand store                                             *)
(*                                                                         *)
(* A reminder is a record                                                  *)
(*   [id, title, datetime, recurrence: [type, interval], completed,        *)
(*    archived, archivedAt, silent]                                        *)
(* (notes, recurrence.customDays and recurrence.endDate are carried by the *)
(* code but read by no operation modelled here).  An optional field that   *)
(* is undefined is FALSE (archived, silent) or Undefined (archivedAt).     *)
(* A store state st is [reminders, bannerMessages, observed, timers, held]: *)
(* observed is the list of states set() has published to the subscribers,  *)
(* timers the banner ids of the pending setTimeout callbacks, oldest first. *)
(* Array.prototype.filter is SelectSeq.                                     *)

Undefined == -1

\* crypto.randomUUID(): an identifier that is not in use
freshId(used) == CHOOSE i \in 1..(Cardinality(used) + 1) :
                    i \notin used /\ \A j \in 1..(i - 1) : j \in used

ids(rs) == {rs[i].id : i \in 1..Len(rs)}

\* reminders.find(r => r.id === id), as the set of positions holding id
positionsOf(rs, id) == {i \in 1..Len(rs) : rs[i].id = id}

find(rs, id) == rs[CHOOSE i \in positionsOf(rs, id) : \A j \in positionsOf(rs, id) : i <= j]

\* zustand set(): the new state is merged in and every subscriber is notified
publish(st) ==
    [st EXCEPT !.observed =
        Append(@, [reminders |-> st.reminders, bannerMessages |-> st.bannerMessages])]

setReminders(st, rs) == publish([st EXCEPT !.reminders = rs])

\* the banner ids a pending timer or a shown banner still refers to
idsInUse(st) ==
    {st.bannerMessages[i].id : i \in 1..Len(st.bannerMessages)}
        \cup {st.timers[i] : i \in 1..Len(st.timers)}

\* lines 118-126: the banner is appended and its timer started (the timer is
\* the action RemoveBanner)
showBanner(st, text, type) ==
    LET id == freshId(idsInUse(st))
    IN  publish([st EXCEPT !.bannerMessages =
                               Append(@, [id |-> id, text |-> text, type |-> type]),
                           !.timers = Append(@, id)])

\* removeBanner dropping the oldest banner shown, whatever its id, in the
\* place of the banner with the given id
removeBannerOldest(st, id) ==
    publish([st EXCEPT !.bannerMessages = IF @ = <<>> THEN @ ELSE Tail(@)])

\* lines 127-130
removeBanner(st, id) ==
    publish([st EXCEPT !.bannerMessages = SelectSeq(@, LAMBDA msg : msg.id # id)])

\* addReminder with the length of the list for an identifier, in the place of
\* crypto.randomUUID() at line 36
addReminderCountingIds(st, reminder) ==
    LET id == Len(st.reminders) + 1
        st1 == setReminders(st, Append(st.reminders, [reminder EXCEPT !.id = id]))
    IN  showBanner(st1, "New reminder set", "success")

\* lines 35-43: reminder comes without an id (or with id: undefined); st.held
\* are the identifiers that live outside the store
addReminder(st, reminder) ==
    LET id == freshId(ids(st.reminders) \cup st.held)
        st1 == setReminders(st, Append(st.reminders, [reminder EXCEPT !.id = id]))
    IN  showBanner(st1, "New reminder set", "success")

\* { ...r, ...reminder }
merge(r, partial) ==
    [f \in DOMAIN r \cup DOMAIN partial |->
        IF f \in DOMAIN partial THEN partial[f] ELSE r[f]]

\* updateReminder merging the fields into every reminder, in the place of
\* the reminder with the given id
updateReminderEvery(st, id, reminder) ==
    LET st1 == setReminders(st,
                  [i \in 1..Len(st.reminders) |-> merge(st.reminders[i], reminder)])
    IN  IF "completed" \in DOMAIN reminder /\ positionsOf(st.reminders, id) # {}
        THEN showBanner(st1, "Task completed", "success")
        ELSE st1

\* lines 44-67
updateReminder(st, id, reminder) ==
    LET existing == positionsOf(st.reminders, id) # {}
        st1 == setReminders(st,
                  [i \in 1..Len(st.reminders) |->
                      IF st.reminders[i].id = id
                      THEN merge(st.reminders[i], reminder)
                      ELSE st.reminders[i]])
        silent == "silent" \in DOMAIN reminder /\ reminder.silent
    IN  IF "completed" \in DOMAIN reminder /\ existing /\ ~silent
        THEN IF reminder.completed
             THEN showBanner(st1, "Task completed", "success")
             ELSE showBanner(st1, "Task marked as incomplete", "info")
        ELSE IF "completed" \notin DOMAIN reminder
        THEN showBanner(st1, "Reminder updated successfully", "success")
        ELSE st1

\* lines 68-81
deleteReminder(st, id) ==
    IF positionsOf(st.reminders, id) = {} THEN st
    ELSE showBanner(setReminders(st, SelectSeq(st.reminders, LAMBDA r : r.id # id)),
                    "Reminder deleted", "info")

\* archiveReminder without archivedAt: new Date() at line 92
archiveReminderNoDate(st, id, clock) ==
    LET st1 == setReminders(st,
                  [i \in 1..Len(st.reminders) |->
                      IF st.reminders[i].id = id
                      THEN [st.reminders[i] EXCEPT !.archived = TRUE]
                      ELSE st.reminders[i]])
    IN  showBanner(st1, "Reminder archived successfully", "success")

\* lines 89-97
archiveReminder(st, id, clock) ==
    LET st1 == setReminders(st,
                  [i \in 1..Len(st.reminders) |->
                      IF st.reminders[i].id = id
                      THEN [st.reminders[i] EXCEPT !.archived = TRUE, !.archivedAt = clock]
                      ELSE st.reminders[i]])
    IN  showBanner(st1, "Reminder archived successfully", "success")

\* line 99
RetentionDays == 30

\* the filter of cleanupArchivedReminders with >= in the place of >
retainedInclusive(reminder, clock) ==
    IF reminder.archived /\ reminder.archivedAt # Undefined
    THEN reminder.archivedAt >= subDays(clock, RetentionDays)
    ELSE TRUE

\* lines 102-107: the filter of cleanupArchivedReminders
retained(reminder, clock) ==
    IF reminder.archived /\ reminder.archivedAt # Undefined
    THEN reminder.archivedAt > subDays(clock, RetentionDays)
    ELSE TRUE

\* lines 98-117: showBanner runs inside the updater, before the updater's
\* result is merged into the state
cleanupArchivedReminders(st, clock) ==
    LET newReminders == SelectSeq(st.reminders, LAMBDA r : retained(r, clock))
        removedCount == Len(st.reminders) - Len(newReminders)
        st1 == IF removedCount > 0
               THEN showBanner(st, "Cleaned up old archived reminders", "info")
               ELSE st
    IN  setReminders(st1, newReminders)

----------------------------------------------------------------------------
(* ReminderList.tsx: the buckets of the Today, Next and Past views         *)

\* lines 25-28
today(clock) == startOfDay(clock)

tomorrow(clock) == addDays(today(clock), 1)

RECURSIVE insertByDatetime(_, _)
insertByDatetime(sorted, r) ==
    IF sorted = <<>> THEN <<r>>
    ELSE IF r.datetime < Head(sorted).datetime THEN <<r>> \o sorted
    ELSE <<Head(sorted)>> \o insertByDatetime(Tail(sorted), r)

RECURSIVE sortByDatetime(_)
\* .sort((a, b) => a.datetime - b.datetime): ascending and stable
sortByDatetime(rs) ==
    IF rs = <<>> THEN <<>>
    ELSE insertByDatetime(sortByDatetime(SubSeq(rs, 1, Len(rs) - 1)), rs[Len(rs)])

\* What date-fns isWithinInterval does with an interval whose start is after
\* its end depends on the installed major version: version 2 throws a
\* RangeError, version 3 swaps the two ends.
IntervalBehaviours == {"throws", "normalizes"}

isWithinInterval(date, start, end, behaviour) ==
    IF start <= end THEN start <= date /\ date <= end
    ELSE behaviour = "normalizes" /\ end <= date /\ date <= start

\* lines 36-66; thrown: the filter called isWithinInterval on an interval that
\* makes it throw, and the view does not render
nextSections(rs, clock, behaviour) ==
    LET endOfCurrentWeek == endOfWeek(today(clock))
        open == SelectSeq(rs, LAMBDA r : ~r.archived /\ ~r.completed)
    IN  IF open # <<>> /\ tomorrow(clock) > endOfCurrentWeek /\ behaviour = "throws"
        THEN [thrown |-> TRUE, thisWeek |-> <<>>, future |-> <<>>]
        ELSE [thrown |-> FALSE,
              thisWeek |-> sortByDatetime(SelectSeq(rs, LAMBDA r :
                              /\ ~r.archived
                              /\ ~r.completed
                              /\ isWithinInterval(r.datetime, tomorrow(clock),
                                                  endOfCurrentWeek, behaviour))),
              future |-> sortByDatetime(SelectSeq(rs, LAMBDA r :
                              /\ ~r.archived
                              /\ ~r.completed
                              /\ isAfter(r.datetime, endOfCurrentWeek)))]

\* lines 68-83
filteredReminders(rs, type, showArchived, clock) ==
    sortByDatetime(SelectSeq(rs, LAMBDA reminder :
        LET reminderDate == startOfDay(reminder.datetime)
        IN  CASE type = "next" ->
                    /\ (isSameDay(reminderDate, tomorrow(clock))
                            \/ reminderDate > tomorrow(clock))
                    /\ ~reminder.archived
                    /\ ~reminder.completed
              [] type = "past" ->
                    IF showArchived THEN reminder.archived
                    ELSE ~reminder.archived /\ reminder.completed
              [] OTHER -> FALSE))

\* line 90: the key of a per-day group
groupKey(reminder) == <<reminder.title, startOfDay(reminder.datetime)>>

RECURSIVE groupKeys(_, _)
\* the keys of the accumulator of lines 87-102, in the order they were created
groupKeys(rs, seen) ==
    IF rs = <<>> THEN <<>>
    ELSE IF Head(rs).recurrence.type = "per-day" /\ groupKey(Head(rs)) \notin seen
    THEN <<groupKey(Head(rs))>> \o groupKeys(Tail(rs), seen \cup {groupKey(Head(rs))})
    ELSE groupKeys(Tail(rs), seen)

groupOf(rs, key) ==
    SelectSeq(rs, LAMBDA r : r.recurrence.type = "per-day" /\ groupKey(r) = key)

\* getCompletedPerDayReminders with some() in the place of every() at line 108
getCompletedPerDayRemindersSome(rs, forToday, clock) ==
    LET keys == groupKeys(rs, {})
        kept == SelectSeq(keys, LAMBDA key :
                    /\ (IF forToday THEN isToday(key[2], clock) ELSE ~isToday(key[2], clock))
                    /\ \E i \in 1..Len(groupOf(rs, key)) : groupOf(rs, key)[i].completed)
    IN  [k \in 1..Len(kept) |->
            LET group == groupOf(rs, kept[k])
            IN  [title |-> kept[k][1],
                 completedCount |-> Len(SelectSeq(group, LAMBDA r : r.completed)),
                 totalCount |-> Len(group),
                 datetime |-> group[1].datetime,
                 id |-> group[1].id]]

\* lines 85-121
getCompletedPerDayReminders(rs, forToday, clock) ==
    LET keys == groupKeys(rs, {})
        kept == SelectSeq(keys, LAMBDA key :
                    /\ (IF forToday THEN isToday(key[2], clock) ELSE ~isToday(key[2], clock))
                    /\ \A i \in 1..Len(groupOf(rs, key)) : groupOf(rs, key)[i].completed)
    IN  [k \in 1..Len(kept) |->
            LET group == groupOf(rs, kept[k])
            IN  [title |-> kept[k][1],
                 completedCount |-> Len(SelectSeq(group, LAMBDA r : r.completed)),
                 totalCount |-> Len(group),
                 datetime |-> group[1].datetime,
                 id |-> group[1].id]]

\* lines 123-165
todaySections(rs, clock) ==
    LET allPerDayReminders == SelectSeq(rs, LAMBDA r :
            isToday(r.datetime, clock) /\ ~r.archived /\ r.recurrence.type = "per-day")
        activePerDayReminders == SelectSeq(allPerDayReminders, LAMBDA r :
            LET groupReminders == SelectSeq(allPerDayReminders, LAMBDA gr : gr.title = r.title)
            IN  ~(\A i \in 1..Len(groupReminders) : groupReminders[i].completed))
        regularReminders == SelectSeq(rs, LAMBDA r : r.recurrence.type # "per-day")
    IN  [perDayReminders |-> activePerDayReminders,
         todayUncompleted |-> SelectSeq(regularReminders, LAMBDA r :
            isToday(r.datetime, clock) /\ ~r.archived /\ ~r.completed),
         pastUncompleted |-> SelectSeq(regularReminders, LAMBDA r :
            isBefore(r.datetime, today(clock)) /\ ~r.archived /\ ~r.completed),
         completedRegularReminders |-> SelectSeq(regularReminders, LAMBDA r :
            isToday(r.datetime, clock) /\ ~r.archived /\ r.completed),
         completedPerDayReminders |->
            getCompletedPerDayReminders(allPerDayReminders, TRUE, clock)]

\* pastSections without r.completed in the filters of the regular buckets
pastSectionsAnyCompletion(rs, clock) ==
    [today |->
        [regular |-> SelectSeq(rs, LAMBDA r :
            isToday(r.datetime, clock) /\ ~r.archived /\ r.recurrence.type # "per-day"),
         perDay |-> getCompletedPerDayReminders(rs, TRUE, clock)],
     past |->
        [regular |-> SelectSeq(rs, LAMBDA r :
            /\ isBefore(r.datetime, today(clock))
            /\ ~r.archived /\ r.recurrence.type # "per-day"),
         perDay |-> getCompletedPerDayReminders(rs, FALSE, clock)],
     future |->
        [regular |-> SelectSeq(rs, LAMBDA r :
            /\ isAfter(r.datetime, today(clock))
            /\ ~r.archived /\ r.recurrence.type # "per-day")]]

\* lines 167-199, for showArchived = FALSE
pastSections(rs, clock) ==
    [today |->
        [regular |-> SelectSeq(rs, LAMBDA r :
            /\ isToday(r.datetime, clock)
            /\ ~r.archived /\ r.completed /\ r.recurrence.type # "per-day"),
         perDay |-> getCompletedPerDayReminders(rs, TRUE, clock)],
     past |->
        [regular |-> SelectSeq(rs, LAMBDA r :
            /\ isBefore(r.datetime, today(clock))
            /\ ~r.archived /\ r.completed /\ r.recurrence.type # "per-day"),
         perDay |-> getCompletedPerDayReminders(rs, FALSE, clock)],
     future |->
        [regular |-> SelectSeq(rs, LAMBDA r :
            /\ isAfter(r.datetime, today(clock))
            /\ ~r.archived /\ r.completed /\ r.recurrence.type # "per-day")]]

----------------------------------------------------------------------------
(* The application: the handlers of the form, the list and the per-day     *)
(* group, each one action                                                  *)

\* the store never holds more occurrences than this
MaxReminders == 2

\* what the user submits: whole forms
Templates ==
    { [title |-> "a", date |-> 4, time |-> 23 * Hour, type |-> "weekly",
       endDate |-> 11, customDays |-> <<>>, interval |-> NoInterval],
      [title |-> "a", date |-> 11, time |-> 23 * Hour, type |-> "none",
       endDate |-> 11, customDays |-> <<>>, interval |-> NoInterval],
      [title |-> "b", date |-> 4, time |-> 23 * Hour, type |-> "per-day",
       endDate |-> 4, customDays |-> <<>>, interval |-> 30] }

\* the readings of the clock: Thursday 5 January 2023 at 10:00 and at 23:45,
\* and 10:00 thirty days later
Clocks == {4 * Day + 10 * Hour, 4 * Day + 23 * Hour + 45 * Minute, 34 * Day + 10 * Hour}

NoCompleteAll == [title |-> "", ids |-> <<>>]

Init ==
    /\ reminders = <<>>
    /\ bannerMessages = <<>>
    /\ observed = <<>>
    /\ timers = <<>>
    /\ completingAll = NoCompleteAll
    /\ now \in {c \in Clocks : \A d \in Clocks : c <= d}
    /\ expansion = Idle

\* the store as a handler finds it; observed restarts with each handler
store ==
    [reminders |-> reminders, bannerMessages |-> bannerMessages, observed |-> <<>>,
     timers |-> timers,
     held |-> {completingAll.ids[i] : i \in 1..Len(completingAll.ids)}]

commit(st) ==
    /\ reminders' = st.reminders
    /\ bannerMessages' = st.bannerMessages
    /\ observed' = st.observed
    /\ timers' = st.timers

\* The handlers of the user interface are explored at the user's pace: the
\* banners of the previous handler (5 seconds) have expired.
quiet == bannerMessages = <<>>

newReminder(title, datetime, type, interval) ==
    [id |-> 0, title |-> title, datetime |-> datetime,
     recurrence |-> [type |-> type, interval |-> interval],
     completed |-> FALSE, archived |-> FALSE, archivedAt |-> Undefined, silent |-> FALSE]

RECURSIVE addAll(_, _, _)
\* lines 166-174: dates.forEach(date => addReminder(...))
addAll(st, dates, form) ==
    IF dates = <<>> THEN st
    ELSE addAll(addReminder(st, newReminder(form.title, Head(dates), form.type, form.interval)),
                Tail(dates), form)

\* ReminderForm.tsx lines 129-181, for a new reminder
handleSubmitNew(st, form, clock) ==
    IF form.type = "none"
    THEN addReminder(st, newReminder(form.title, form.date * Day + form.time,
                                     "none", NoInterval))
    ELSE LET dates == generateRecurringDates(
                          form.date * Day + form.time, form.endDate * Day + form.time,
                          form.type, form.customDays, form.interval, form.time, clock)
         IN  showBanner(addAll(st, dates, form), "Created recurring reminders", "success")

\* the number of occurrences handleSubmitNew adds
batchSize(form, clock) ==
    IF form.type = "none" THEN 1
    ELSE Len(generateRecurringDates(
                form.date * Day + form.time, form.endDate * Day + form.time,
                form.type, form.customDays, form.interval, form.time, clock))

\* ReminderForm.tsx lines 140-147, for an existing reminder
handleSubmitEdit(st, id, form) ==
    showBanner(
        updateReminder(st, id,
            [title |-> form.title,
             datetime |-> form.date * Day + form.time,
             recurrence |-> [type |-> form.type, interval |-> form.interval]]),
        "Reminder updated successfully", "success")

RECURSIVE deleteAll(_, _)
deleteAll(st, rs) ==
    IF rs = <<>> THEN st ELSE deleteAll(deleteReminder(st, Head(rs).id), Tail(rs))

\* ReminderForm.tsx lines 183-198; formType is recurrence.type of the form's
\* state, which starts as the reminder's own type and follows the type buttons
handleDelete(st, id, formType) ==
    LET existingReminder == find(st.reminders, id)
    IN  IF formType # "none"
        THEN deleteAll(st, SelectSeq(st.reminders, LAMBDA r :
                            /\ r.title = existingReminder.title
                            /\ r.datetime >= existingReminder.datetime))
        ELSE deleteReminder(st, id)

SubmitNew ==
    \E form \in Templates :
        /\ quiet
        /\ Len(reminders) + batchSize(form, now) <= MaxReminders
        /\ commit(handleSubmitNew(store, form, now))
        /\ UNCHANGED <<completingAll, now, expansion>>

\* the title the user types over the title of a reminder that is edited
EditTitles == {"b"}

\* ReminderForm.tsx lines 27-52: the form of an existing reminder starts with
\* the reminder's own values
formOf(existingReminder) ==
    [title |-> existingReminder.title,
     date |-> dayNumber(existingReminder.datetime),
     time |-> (timeOfDay(existingReminder.datetime) \div Minute) * Minute,
     type |-> existingReminder.recurrence.type,
     endDate |-> dayNumber(existingReminder.datetime),
     customDays |-> <<>>,
     interval |-> existingReminder.recurrence.interval]

SubmitEdit ==
    \E id \in ids(reminders), title \in EditTitles :
        /\ quiet
        /\ commit(handleSubmitEdit(store, id,
                    [formOf(find(reminders, id)) EXCEPT !.title = title]))
        /\ UNCHANGED <<completingAll, now, expansion>>

HandleDelete ==
    \E id \in ids(reminders), formType \in RecurrenceTypes :
        /\ quiet
        /\ commit(handleDelete(store, id, formType))
        /\ UNCHANGED <<completingAll, now, expansion>>

seqIds(rs) == {rs[i].id : i \in 1..Len(rs)}

\* ReminderCard (store.ts lines 229-232) in the lists of the Today view
\* (ReminderList.tsx lines 287, 306, 326 and 237)
ToggleComplete ==
    \E id \in ids(reminders) :
        LET sections == todaySections(reminders, now)
        IN  /\ quiet
            /\ id \in seqIds(sections.pastUncompleted) \cup seqIds(sections.todayUncompleted)
                        \cup seqIds(sections.completedRegularReminders)
            /\ commit(updateReminder(store, id,
                        [completed |-> ~find(reminders, id).completed]))
            /\ UNCHANGED <<completingAll, now, expansion>>

\* ReminderCard (store.ts lines 257-259) in the lists of the Past view with
\* showArchived off (ReminderList.tsx lines 404, 424, 443 and 238-239)
ArchiveCard ==
    \E id \in ids(reminders) :
        LET sections == pastSections(reminders, now)
        IN  /\ quiet
            /\ id \in seqIds(sections.today.regular) \cup seqIds(sections.past.regular)
                        \cup seqIds(sections.future.regular)
            /\ commit(archiveReminder(store, id, now))
            /\ UNCHANGED <<completingAll, now, expansion>>

\* ReminderList.tsx lines 217-224: the archive button of a per-day summary, in
\* the Today view (line 325) and in the Past view (lines 403, 423)
ArchiveSummary ==
    \E id \in ids(reminders) :
        /\ quiet
        /\ id \in seqIds(todaySections(reminders, now).completedPerDayReminders)
                    \cup seqIds(pastSections(reminders, now).today.perDay)
                    \cup seqIds(pastSections(reminders, now).past.perDay)
        /\ commit(archiveReminder(store, id, now))
        /\ UNCHANGED <<completingAll, now, expansion>>

\* ReminderList.tsx lines 31-34: the effect that runs when the list mounts
MountReminderList ==
    /\ quiet
    /\ commit(cleanupArchivedReminders(store, now))
    /\ UNCHANGED <<completingAll, now, expansion>>

(* PerDayReminderGroup.tsx                                                 *)

\* format(datetime, 'HH:mm'): the time of day, to the minute
hoursAndMinutes(t) == (timeOfDay(t) \div Minute) * Minute

RECURSIVE slotsFrom(_, _, _)
slotsFrom(currentTime, todayEnd, interval) ==
    IF ~(currentTime <= todayEnd) THEN <<>>
    ELSE <<currentTime>> \o slotsFrom(addMinutes(currentTime, interval), todayEnd, interval)

\* lines 104-124 (the slots are generated in ascending order, which the final
\* sort keeps)
calculateTimeSlots(baseReminder, clock) ==
    LET interval == IF baseReminder.recurrence.interval = NoInterval
                    THEN 30
                    ELSE baseReminder.recurrence.interval
    IN  slotsFrom(startOfDay(clock) + hoursAndMinutes(baseReminder.datetime),
                  endOfDay(startOfDay(clock)), interval)

\* lines 93-102: the members of the group of a title, among the active per-day
\* reminders the list hands over
groupReminders(rs, clock, title) ==
    SelectSeq(todaySections(rs, clock).perDayReminders, LAMBDA r : r.title = title)

RECURSIVE titlesOf(_, _)
\* the keys of groupedReminders (lines 93-102), in the order they were created
titlesOf(rs, seen) ==
    IF rs = <<>> THEN <<>>
    ELSE IF Head(rs).title \in seen THEN titlesOf(Tail(rs), seen)
    ELSE <<Head(rs).title>> \o titlesOf(Tail(rs), seen \cup {Head(rs).title})

\* missingSlots looking at the first member of the group only, in the place
\* of all its members
missingSlotsFirstOnly(group, clock) ==
    SelectSeq(calculateTimeSlots(group[1], clock), LAMBDA slot :
        ~isSameMinute(group[1].datetime, slot))

\* lines 134-138: the slots for which the group has no reminder of that minute
missingSlots(group, clock) ==
    SelectSeq(calculateTimeSlots(group[1], clock), LAMBDA slot :
        \A i \in 1..Len(group) : ~isSameMinute(group[i].datetime, slot))

RECURSIVE addSlots(_, _, _)
\* lines 140-147 (id: undefined is the 0 of newReminder)
addSlots(st, baseReminder, slots) ==
    IF slots = <<>> THEN st
    ELSE addSlots(addReminder(st, [baseReminder EXCEPT !.id = 0,
                                                       !.datetime = Head(slots),
                                                       !.completed = FALSE]),
                  baseReminder, Tail(slots))

RECURSIVE ensureSlots(_, _, _, _)
\* lines 127-149: the effect works on the groups of the render it belongs to
ensureSlots(st, rendered, titles, clock) ==
    IF titles = <<>> THEN st
    ELSE LET group == SelectSeq(rendered, LAMBDA r : r.title = Head(titles))
         IN  ensureSlots(addSlots(st, group[1], missingSlots(group, clock)),
                         rendered, Tail(titles), clock)

RECURSIVE missingCount(_, _, _)
missingCount(rendered, titles, clock) ==
    IF titles = <<>> THEN 0
    ELSE Len(missingSlots(SelectSeq(rendered, LAMBDA r : r.title = Head(titles)), clock))
            + missingCount(rendered, Tail(titles), clock)

\* lines 126-149: the effect of the per-day groups of the Today view, when
\* some slot of today has no reminder
EnsureSlots ==
    LET rendered == todaySections(reminders, now).perDayReminders
        titles == titlesOf(rendered, {})
    IN  /\ quiet
        /\ missingCount(rendered, titles, now) > 0
        /\ Len(reminders) + missingCount(rendered, titles, now) <= MaxReminders
        /\ commit(ensureSlots(store, rendered, titles, now))
        /\ UNCHANGED <<completingAll, now, expansion>>

\* lines 151-175
getRelevantReminders(group, clock) ==
    LET todayReminders == sortByDatetime(SelectSeq(group, LAMBDA r : isToday(r.datetime, clock)))
        currentAndUpcoming == SelectSeq(todayReminders, LAMBDA r :
                                  ~r.completed \/ isBefore(r.datetime, clock))
    IN  [displayReminders |-> SubSeq(currentAndUpcoming, 1,
                                     IF Len(currentAndUpcoming) < 3
                                     THEN Len(currentAndUpcoming) ELSE 3),
         allReminders |-> todayReminders,
         totalSlots |-> Len(calculateTimeSlots(group[1], clock)),
         completedCount |-> Len(SelectSeq(todayReminders, LAMBDA r : r.completed))]

\* lines 289-297 (a slot button) and lines 67-73, 220-222, 338-345 (the modal
\* of the remaining tasks)
CompleteSlot ==
    \E id \in ids(reminders) :
        LET group == groupReminders(reminders, now, find(reminders, id).title)
            relevant == getRelevantReminders(group, now)
            r == find(reminders, id)
        IN  /\ quiet
            /\ group # <<>>
            /\ ~r.completed
            /\ \/ /\ id \in seqIds(relevant.displayReminders)
                  /\ isBefore(r.datetime, now)
                  /\ completingAll = NoCompleteAll
               \/ /\ relevant.totalSlots > Len(relevant.displayReminders)
                  /\ id \in seqIds(relevant.allReminders)
            /\ commit(updateReminder(store, id, [completed |-> TRUE]))
            /\ UNCHANGED <<completingAll, now, expansion>>

\* lines 177-184: the click on Complete All takes the incomplete members of
\* the group and starts the animation
ClickCompleteAll ==
    \E title \in {reminders[i].title : i \in 1..Len(reminders)} :
        LET group == groupReminders(reminders, now, title)
            incompleteReminders == SelectSeq(group, LAMBDA r :
                                       ~r.completed /\ isToday(r.datetime, now))
        IN  /\ quiet
            /\ completingAll = NoCompleteAll
            /\ group # <<>>
            /\ incompleteReminders # <<>>
            /\ completingAll' =
                  [title |-> title,
                   ids |-> [i \in 1..Len(incompleteReminders) |-> incompleteReminders[i].id]]
            /\ UNCHANGED <<reminders, bannerMessages, observed, timers, now, expansion>>

RECURSIVE completeEach(_, _)
\* lines 199-201
completeEach(st, snapshot) ==
    IF snapshot = <<>> THEN st
    ELSE completeEach(updateReminder(st, Head(snapshot), [completed |-> TRUE, silent |-> TRUE]),
                      Tail(snapshot))

\* lines 195-214: the last animation frame, 2 seconds after the click (with
\* the two timers it starts: the second banner and the reset of completingAll)
commitCompleteAll(st, snapshot) ==
    showBanner(showBanner(completeEach(st, snapshot),
                          "All tasks marked as complete", "success"),
               "Completed tasks", "success")

CommitCompleteAll ==
    /\ completingAll # NoCompleteAll
    /\ commit(commitCompleteAll(store, completingAll.ids))
    /\ completingAll' = NoCompleteAll
    /\ UNCHANGED <<now, expansion>>

\* store.ts lines 123-125: the oldest pending timer fires, 5 seconds after
\* its banner was shown (later than a pending end of the animation), and
\* calls removeBanner with the id it was started for
RemoveBanner ==
    /\ timers # <<>>
    /\ completingAll = NoCompleteAll
    /\ commit(removeBanner([store EXCEPT !.timers = Tail(@)], Head(timers)))
    /\ UNCHANGED <<completingAll, now, expansion>>

\* time passes to the next reading of the clock, hours later: the timers that
\* were pending have fired
Tick ==
    \E c \in Clocks :
        /\ quiet
        /\ completingAll = NoCompleteAll
        /\ c > now
        /\ now' = c
        /\ UNCHANGED <<reminders, bannerMessages, observed, timers, completingAll, expansion>>

Next ==
    \/ SubmitNew
    \/ SubmitEdit
    \/ HandleDelete
    \/ ToggleComplete
    \/ EnsureSlots
    \/ CompleteSlot
    \/ ClickCompleteAll
    \/ CommitCompleteAll
    \/ ArchiveCard
    \/ ArchiveSummary
    \/ MountReminderList
    \/ RemoveBanner
    \/ Tick

Spec == Init /\ [][Next]_vars

----------------------------------------------------------------------------
(* The store on its own: any caller invokes the actions of store.ts        *)
(* lines 35-130 with any identifier, known to the store or not             *)

\* the readings of the clock: a first one, and 29, 30 and 31 days after it
StoreClocks == {0, 29 * Day, 30 * Day, 31 * Day}

\* the identifiers a caller passes: those of the store and one it lacks
callerIds == ids(reminders) \cup {freshId(ids(reminders))}

InitStore ==
    /\ reminders = <<>>
    /\ bannerMessages = <<>>
    /\ observed = <<>>
    /\ timers = <<>>
    /\ completingAll = NoCompleteAll
    /\ now \in {c \in StoreClocks : \A d \in StoreClocks : c <= d}
    /\ expansion = Idle

CallAddReminder ==
    /\ quiet
    /\ Len(reminders) < MaxReminders
    /\ commit(addReminder(store, newReminder("a", 9 * Hour, "none", NoInterval)))
    /\ UNCHANGED <<completingAll, now, expansion>>

CallUpdateReminder ==
    \E id \in callerIds, completed \in BOOLEAN :
        /\ quiet
        /\ commit(updateReminder(store, id, [completed |-> completed]))
        /\ UNCHANGED <<completingAll, now, expansion>>

CallDeleteReminder ==
    \E id \in callerIds :
        /\ quiet
        /\ commit(deleteReminder(store, id))
        /\ UNCHANGED <<completingAll, now, expansion>>

CallArchiveReminder ==
    \E id \in callerIds :
        /\ quiet
        /\ commit(archiveReminder(store, id, now))
        /\ UNCHANGED <<completingAll, now, expansion>>

CallCleanupArchivedReminders ==
    /\ quiet
    /\ commit(cleanupArchivedReminders(store, now))
    /\ UNCHANGED <<completingAll, now, expansion>>

TickStore ==
    \E c \in StoreClocks :
        /\ quiet
        /\ c > now
        /\ now' = c
        /\ UNCHANGED <<reminders, bannerMessages, observed, timers, completingAll, expansion>>

NextStore ==
    \/ CallAddReminder
    \/ CallUpdateReminder
    \/ CallDeleteReminder
    \/ CallArchiveReminder
    \/ CallCleanupArchivedReminders
    \/ RemoveBanner
    \/ TickStore

SpecStore == InitStore /\ [][NextStore]_vars

----------------------------------------------------------------------------
(* Properties of the expansion, checked under SpecExpand                   *)

\* what handleSubmit passes as startDate and endDate (lines 131-132)
baseDateTime == expansion.date * Day + expansion.time

endDateTime == expansion.endDate * Day + expansion.time

minOf(S) == CHOOSE x \in S : \A y \in S : x <= y

Range(s) == {s[i] : i \in 1..Len(s)}

stepDays(recurrenceType) ==
    CASE recurrenceType = "daily" -> 1
      [] recurrenceType = "alternate" -> 2
      [] recurrenceType = "weekly" -> 7

\* C5: for daily, alternate and weekly the expansion is exactly the instants
\* start + k*step (step = 1, 2, 7 days), k >= 0, that are <= end, ascending, all
\* at the template's time of day; daily over D..D+6 gives 7 occurrences and
\* consecutive alternate occurrences are 2 days apart.
C5_FixedStepExpansion ==
    (expansion.called /\ expansion.type \in {"daily", "alternate", "weekly"}) =>
        LET step == stepDays(expansion.type) * Day
            n == IF endDateTime < baseDateTime THEN 0
                 ELSE (endDateTime - baseDateTime) \div step + 1
            dates == expansion.dates
        IN  /\ Len(dates) = n
            /\ \A k \in 1..n : dates[k] = baseDateTime + (k - 1) * step
            /\ \A k \in 1..Len(dates) : timeOfDay(dates[k]) = expansion.time
            /\ (expansion.type = "daily" /\ expansion.endDate = expansion.date + 6)
                  => Len(dates) = 7
            /\ expansion.type = "alternate" =>
                  \A k \in 2..Len(dates) : dates[k] - dates[k - 1] = 2 * Day

C5_Witness ==
    /\ expansion.called
    /\ expansion.type = "daily"
    /\ expansion.endDate = expansion.date + 6
    /\ Len(expansion.dates) = 7

\* C6: a custom series whose start weekday is later than every entry of
\* customDays has its first occurrence on the first customDays weekday of the
\* following week, not on the start date.
C6_CustomWraparound ==
    (/\ expansion.called
     /\ expansion.type = "custom"
     /\ \A d \in Range(expansion.customDays) : d < getDay(baseDateTime)
     /\ expansion.dates # <<>>) =>
        expansion.dates[1] =
            addDays(baseDateTime,
                    7 - getDay(baseDateTime) + minOf(Range(expansion.customDays)))

\* the first slot start + k*interval, k >= 0, that is not before the clock
nextSlotFrom(start, interval, clock) ==
    IF clock <= start THEN start
    ELSE start + ceilDiv(clock - start, interval * Minute) * interval * Minute

\* C7: when a per-day template starts at or before now, no generated
\* occurrence is earlier than now, and the first one is the earliest slot
\* start + k*interval that is >= now.
C7_PerDaySkipForward ==
    (/\ expansion.called
     /\ expansion.type = "per-day"
     /\ baseDateTime <= expansion.clock) =>
        /\ \A i \in 1..Len(expansion.dates) : expansion.dates[i] >= expansion.clock
        /\ expansion.dates # <<>> =>
              expansion.dates[1] =
                  nextSlotFrom(baseDateTime, expansion.interval, expansion.clock)

\* C8: in a per-day expansion no occurrence has a time of day earlier than the
\* template's, and every day after the first generated one starts at the
\* template's time of day.
C8_PerDaySlotRestart ==
    (expansion.called /\ expansion.type = "per-day") =>
        LET dates == expansion.dates
        IN  /\ \A i \in 1..Len(dates) : timeOfDay(dates[i]) >= expansion.time
            /\ \A i \in 2..Len(dates) :
                  dayNumber(dates[i]) # dayNumber(dates[i - 1])
                      => timeOfDay(dates[i]) = expansion.time

----------------------------------------------------------------------------
(* Properties of the views and of the handlers, checked under Spec         *)

\* the occurrences a per-day summary stands for
summaryMembers(rs, summary) ==
    seqIds(groupOf(rs, <<summary.title, startOfDay(summary.datetime)>>))

summariesMembers(rs, summaries) ==
    [k \in 1..Len(summaries) |-> summaryMembers(rs, summaries[k])]

pairwiseDisjoint(buckets) ==
    \A i, j \in 1..Len(buckets) : i # j => buckets[i] \cap buckets[j] = {}

todayBuckets ==
    LET sections == todaySections(reminders, now)
        todayPerDay == SelectSeq(reminders, LAMBDA r :
            isToday(r.datetime, now) /\ ~r.archived /\ r.recurrence.type = "per-day")
    IN  <<seqIds(sections.perDayReminders), seqIds(sections.todayUncompleted),
          seqIds(sections.pastUncompleted), seqIds(sections.completedRegularReminders)>>
        \o summariesMembers(todayPerDay, sections.completedPerDayReminders)

nextBuckets(behaviour) ==
    LET sections == nextSections(reminders, now, behaviour)
    IN  <<seqIds(sections.thisWeek), seqIds(sections.future)>>

pastBuckets ==
    LET sections == pastSections(reminders, now)
    IN  <<seqIds(sections.today.regular), seqIds(sections.past.regular),
          seqIds(sections.future.regular)>>
        \o summariesMembers(reminders, sections.today.perDay)
        \o summariesMembers(reminders, sections.past.perDay)

\* C1: in each view (Today, Next, Past) the buckets ReminderList computes are
\* pairwise disjoint: no occurrence is in two buckets of the same view.
C1_BucketExclusivity ==
    /\ pairwiseDisjoint(todayBuckets)
    /\ \A behaviour \in IntervalBehaviours : pairwiseDisjoint(nextBuckets(behaviour))
    /\ pairwiseDisjoint(pastBuckets)

\* what the delete-series rule leaves of the store when occurrence id is deleted
afterDeleteSeries(rs, id) ==
    LET X == find(rs, id)
    IN  IF X.recurrence.type # "none"
        THEN SelectSeq(rs, LAMBDA r : ~(r.title = X.title /\ r.datetime >= X.datetime))
        ELSE SelectSeq(rs, LAMBDA r : r.id # id)

\* C4: deleting an occurrence X whose type is not none removes X and every
\* occurrence of the same title with datetime >= X.datetime and nothing else;
\* deleting an occurrence of type none removes exactly that occurrence.
C4_DeleteSeries ==
    [][\A id \in ids(reminders), formType \in RecurrenceTypes :
          (quiet /\ commit(handleDelete(store, id, formType)))
              => reminders' = afterDeleteSeries(reminders, id)]_vars

\* the non-archived per-day occurrences dated today that have the title
todayGroup(title) ==
    SelectSeq(reminders, LAMBDA r :
        /\ r.title = title
        /\ r.recurrence.type = "per-day"
        /\ isToday(r.datetime, now)
        /\ ~r.archived)

\* C9: in the Today view a per-day group of today is either wholly in the
\* active per-day bucket (some member is not completed) and has no summary, or
\* (all members completed) has exactly one summary, whose completedCount is the
\* size of the group, and no member in the active bucket.
C9_GroupCompletion ==
    \A title \in {reminders[i].title : i \in 1..Len(reminders)} :
        LET group == todayGroup(title)
            sections == todaySections(reminders, now)
            active == seqIds(sections.perDayReminders)
            summaries == SelectSeq(sections.completedPerDayReminders,
                                LAMBDA summary : summary.title = title)
        IN  group # <<>> =>
                IF \E i \in 1..Len(group) : ~group[i].completed
                THEN seqIds(group) \subseteq active /\ summaries = <<>>
                ELSE /\ seqIds(group) \cap active = {}
                     /\ Len(summaries) = 1
                     /\ summaries[1].completedCount = Len(group)
                     /\ summaries[1].totalCount = Len(group)

\* a group of several members, all completed, is shown today as a summary
C9_Witness ==
    \E k \in 1..Len(todaySections(reminders, now).completedPerDayReminders) :
        todaySections(reminders, now).completedPerDayReminders[k].totalCount > 1

\* C10: when a submitted form expands to N > 1 occurrences, no state the store
\* publishes to its subscribers holds some but not all of the N occurrences.
C10_BatchInsertAtomicity ==
    [][\A form \in Templates :
          (/\ quiet
           /\ batchSize(form, now) > 1
           /\ commit(handleSubmitNew(store, form, now)))
              => \A k \in 1..Len(observed') :
                    Len(observed'[k].reminders) - Len(reminders)
                        \in {0, batchSize(form, now)}]_vars

----------------------------------------------------------------------------
(* Properties of the store, checked under SpecStore                        *)

\* C2: archiveReminder(id) on an occurrence that is not completed leaves the
\* store as it was: the occurrence is not archived and gets no archivedAt.
C2_ArchiveRequiresCompleted ==
    [][\A id \in ids(reminders) :
          (/\ quiet
           /\ ~find(reminders, id).completed
           /\ commit(archiveReminder(store, id, now)))
              => reminders' = reminders]_vars

\* C3 as stated: cleanupArchivedReminders at time now removes exactly the
\* archived occurrences whose archivedAt is strictly more than 30 days before
\* now, and leaves every other occurrence in the store, unchanged.
C3_CleanupStrictlyOlder ==
    [][(quiet /\ commit(cleanupArchivedReminders(store, now)))
          => reminders' = SelectSeq(reminders, LAMBDA r :
                ~(r.archived /\ r.archivedAt # Undefined
                    /\ now - r.archivedAt > RetentionDays * Day))]_vars

\* C3 as amended: cleanupArchivedReminders at time now removes exactly the
\* archived occurrences whose archivedAt is 30 days or more before now, and
\* leaves every other occurrence in the store, unchanged and in its place.
C3_CleanupAtLeastRetention ==
    [][(quiet /\ commit(cleanupArchivedReminders(store, now)))
          => reminders' = SelectSeq(reminders, LAMBDA r :
                ~(r.archived /\ r.archivedAt # Undefined
                    /\ now - r.archivedAt >= RetentionDays * Day))]_vars

\* a cleanup has removed an occurrence archived exactly 30 days before and
\* has kept one archived one day before
C3_Witness ==
    /\ now = 30 * Day
    /\ \E i \in 1..Len(bannerMessages) :
          bannerMessages[i].text = "Cleaned up old archived reminders"
    /\ \E i \in 1..Len(reminders) :
          reminders[i].archived /\ reminders[i].archivedAt = 29 * Day
    /\ \A i \in 1..Len(reminders) : reminders[i].archivedAt # 0

----------------------------------------------------------------------------
(* Properties of Complete All, checked under Spec                          *)

\* the incomplete members of today's group of the title, as the store has them
incompleteToday(rs, title, clock) ==
    SelectSeq(rs, LAMBDA r :
        /\ r.title = title
        /\ r.recurrence.type = "per-day"
        /\ isToday(r.datetime, clock)
        /\ ~r.archived
        /\ ~r.completed)

\* C11: the commit of Complete All for a title completes, in one step, every
\* occurrence that is then an incomplete member of today's group of the title:
\* no state the store publishes has only part of them completed, and none of
\* them is incomplete after the commit.
C11_CompleteAllAtomicity ==
    [][(/\ completingAll # NoCompleteAll
        /\ completingAll' = NoCompleteAll
        /\ commit(commitCompleteAll(store, completingAll.ids)))
          => LET members == seqIds(incompleteToday(reminders, completingAll.title, now))
                 done(rs) == {id \in members :
                                 \E i \in 1..Len(rs) : rs[i].id = id /\ rs[i].completed}
             IN  /\ \A k \in 1..Len(observed') :
                        done(observed'[k].reminders) \in {{}, members}
                 /\ done(reminders') = members]_vars

----------------------------------------------------------------------------
(* Properties of malformed recurrence configurations, under SpecExpand     *)

\* custom without a day of the week, or per-day with an interval that is not
\* positive
malformed(x) ==
    \/ x.type = "custom" /\ x.customDays = <<>>
    \/ x.type = "per-day" /\ x.interval <= 0

\* C13: a submitted recurrence configuration that is malformed (custom with
\* no customDays, per-day with a non-positive interval) is rejected before the
\* expansion: the submit comes to its end and has no occurrence to insert.
C13_MalformedConfigRejected ==
    (expansion.called /\ malformed(expansion))
        => (expansion.returned /\ expansion.dates = <<>>)

----------------------------------------------------------------------------
(* Properties of the store's actions, checked under SpecStore              *)

\* C12: updateReminder, deleteReminder and archiveReminder called with an id
\* that no occurrence has leave the store as it was: the same reminders and
\* no banner added.
C12_UnknownIdRejected ==
    [][\A id \in callerIds \ ids(reminders) :
          (/\ quiet
           /\ \/ \E completed \in BOOLEAN :
                    commit(updateReminder(store, id, [completed |-> completed]))
              \/ commit(deleteReminder(store, id))
              \/ commit(archiveReminder(store, id, now)))
              => (reminders' = reminders /\ bannerMessages' = bannerMessages)]_vars

----------------------------------------------------------------------------
(* Properties of archiving, checked under Spec                             *)

\* C14: an archived occurrence stays archived as long as it is in the store,
\* and its archivedAt stays what it was when it was first set.
C14_ArchiveOneWay ==
    [][\A i \in 1..Len(reminders), j \in 1..Len(reminders') :
          (reminders[i].id = reminders'[j].id /\ reminders[i].archived)
              => /\ reminders'[j].archived
                 /\ reminders'[j].archivedAt = reminders[i].archivedAt]_vars

----------------------------------------------------------------------------
(* Properties of the classification of the views, checked under Spec       *)

unionOf(buckets) == UNION {buckets[i] : i \in 1..Len(buckets)}

\* the list of the Past view with showArchived on (ReminderList.tsx line 345)
archivedBucket == seqIds(filteredReminders(reminders, "past", TRUE, now))

\* C15: every occurrence of the store is in a bucket of the Today, Next or
\* Past view (showArchived on or off), and every occurrence that is neither
\* archived nor completed and is dated before tomorrow is in a Today bucket,
\* whatever its recurrence type.
C15_Coverage ==
    \A i \in 1..Len(reminders) :
        /\ \A behaviour \in IntervalBehaviours :
              reminders[i].id \in unionOf(todayBuckets) \cup unionOf(nextBuckets(behaviour))
                                    \cup unionOf(pastBuckets) \cup archivedBucket
        /\ (/\ ~reminders[i].archived
            /\ ~reminders[i].completed
            /\ reminders[i].datetime < tomorrow(now))
              => reminders[i].id \in unionOf(todayBuckets)

----------------------------------------------------------------------------
(* The views on their own: the list renders whatever store the persist     *)
(* middleware (store.ts lines 25, 143-145) hands back when the page loads, *)
(* on any day of the week                                                 *)

\* Friday 6, Saturday 7 and Sunday 8 January 2023 at 10:00
ViewClocks == {5 * Day + 10 * Hour, 6 * Day + 10 * Hour, 7 * Day + 10 * Hour}

\* Friday 09:00, Saturday 09:00, Sunday 00:00 and Monday 09:00
ViewDatetimes == {5 * Day + 9 * Hour, 6 * Day + 9 * Hour, 7 * Day, 8 * Day + 9 * Hour}

\* the stores that are loaded: up to MaxReminders open one-off reminders, in
\* any order of insertion, with the identifiers in the order they were given
ViewStores == UNION {[1..n -> ViewDatetimes] : n \in 0..MaxReminders}

InitViews ==
    /\ \E loaded \in ViewStores :
          reminders = [i \in 1..Len(loaded) |->
                          [newReminder("a", loaded[i], "none", NoInterval) EXCEPT !.id = i]]
    /\ bannerMessages = <<>>
    /\ observed = <<>>
    /\ timers = <<>>
    /\ completingAll = NoCompleteAll
    /\ now \in {c \in ViewClocks : \A d \in ViewClocks : c <= d}
    /\ expansion = Idle

TickViews ==
    \E c \in ViewClocks :
        /\ quiet
        /\ c > now
        /\ now' = c
        /\ UNCHANGED <<reminders, bannerMessages, observed, timers, completingAll, expansion>>

NextViews ==
    \/ ToggleComplete
    \/ RemoveBanner
    \/ TickViews

SpecViews == InitViews /\ [][NextViews]_vars

\* the occurrences the Next view is to show
nextExpected == {reminders[i].id : i \in {j \in 1..Len(reminders) :
                    /\ ~reminders[j].archived
                    /\ ~reminders[j].completed
                    /\ reminders[j].datetime >= tomorrow(now)}}

\* C16: on every day of the week the Next view renders, and shows exactly the
\* occurrences that are not archived, not completed and dated tomorrow or
\* later, each in exactly one of thisWeek (up to the end of the week) and
\* future (after the end of the week).
C16_NextViewPartition ==
    \A behaviour \in IntervalBehaviours :
        LET sections == nextSections(reminders, now, behaviour)
            thisWeek == seqIds(sections.thisWeek)
            future == seqIds(sections.future)
        IN  /\ ~sections.thrown
            /\ thisWeek \cup future = nextExpected
            /\ thisWeek \cap future = {}
            /\ \A i \in 1..Len(reminders) :
                  /\ reminders[i].id \in thisWeek
                        => reminders[i].datetime <= endOfWeek(today(now))
                  /\ reminders[i].id \in future
                        => reminders[i].datetime > endOfWeek(today(now))

\* the place of an occurrence in the store
placeOf(id) == CHOOSE i \in positionsOf(reminders, id) : TRUE

\* ascending by datetime, occurrences of one datetime in their order of insertion
ascending(bucket) ==
    \A i, j \in 1..Len(bucket) :
        i < j => \/ bucket[i].datetime < bucket[j].datetime
                 \/ /\ bucket[i].datetime = bucket[j].datetime
                    /\ placeOf(bucket[i].id) < placeOf(bucket[j].id)

\* C17: every bucket of every view lists its occurrences by ascending
\* datetime, whatever the order in which the store holds them, and keeps
\* occurrences of the same datetime in their order of insertion.
C17_SortOrder ==
    /\ ascending(todaySections(reminders, now).pastUncompleted)
    /\ ascending(todaySections(reminders, now).todayUncompleted)
    /\ ascending(todaySections(reminders, now).completedRegularReminders)
    /\ ascending(todaySections(reminders, now).perDayReminders)
    /\ \A behaviour \in IntervalBehaviours :
          /\ ascending(nextSections(reminders, now, behaviour).thisWeek)
          /\ ascending(nextSections(reminders, now, behaviour).future)
    /\ ascending(pastSections(reminders, now).today.regular)
    /\ ascending(pastSections(reminders, now).past.regular)
    /\ ascending(pastSections(reminders, now).future.regular)
    /\ ascending(filteredReminders(reminders, "past", TRUE, now))

----------------------------------------------------------------------------
(* Invariants of the archived occurrences, checked under Spec              *)

\* C18: every occurrence has archivedAt set if and only if it is archived.
C18_ArchivedAtIffArchived ==
    \A i \in 1..Len(reminders) :
        (reminders[i].archivedAt # Undefined) = reminders[i].archived

\* the store holds an archived occurrence and one that is not archived
C18_Witness ==
    /\ \E i \in 1..Len(reminders) :
          reminders[i].archived /\ reminders[i].archivedAt # Undefined
    /\ \E i \in 1..Len(reminders) :
          ~reminders[i].archived /\ reminders[i].archivedAt = Undefined

\* C19: through the actions the views offer, every archived occurrence is
\* completed: none archives an occurrence that is not completed and none
\* takes the completion of an archived occurrence back.
C19_ArchivedImpliesCompleted ==
    \A i \in 1..Len(reminders) : reminders[i].archived => reminders[i].completed

\* an occurrence was archived with the archive button of a card of the Past
\* view, next to an occurrence that is not completed
C19_Witness ==
    /\ \E i \in 1..Len(reminders) :
          /\ reminders[i].archived
          /\ reminders[i].completed
          /\ reminders[i].recurrence.type # "per-day"
    /\ \E i \in 1..Len(reminders) : ~reminders[i].completed

----------------------------------------------------------------------------
(* Properties of the banners of the store's actions, under SpecStore       *)

\* C20: the banner that announces an action of the store (addReminder,
\* updateReminder, deleteReminder, archiveReminder, cleanupArchivedReminders)
\* is added after the reminders were changed: no state the store publishes
\* holds the banner together with the reminders as they were before.
C20_BannerAfterMutation ==
    [][quiet =>
          \A k \in 1..Len(observed') :
              observed'[k].bannerMessages # <<>>
                  => observed'[k].reminders = reminders']_vars

----------------------------------------------------------------------------
(* Properties of the Past view, checked under Spec                         *)

archivedIds == {reminders[i].id : i \in {j \in 1..Len(reminders) : reminders[j].archived}}

\* C21: with showArchived off, no bucket of the Past view holds or counts an
\* archived occurrence, the per-day summaries of today and of the past
\* included; with showArchived on, the one bucket is the set of the archived
\* occurrences.
C21_PastViewLeavesArchivedOut ==
    /\ unionOf(pastBuckets) \cap archivedIds = {}
    /\ archivedBucket = archivedIds

----------------------------------------------------------------------------
(* Properties of the monthly and custom expansions, under SpecExpand       *)

\* the calendar month of an instant, counted from January of year 0
monthIndex(t) == getFullYear(t) * 12 + getMonth(t)

\* C22: a monthly series has one occurrence in each calendar month from the
\* start date's month on, none after the end date, each at the template's time
\* of day and on the start date's day of the month wherever the month has
\* that day (started on 31 January: 31 March).
C22_MonthlyKeepsDayOfMonth ==
    (expansion.called /\ expansion.returned /\ expansion.type = "monthly") =>
        \A k \in 1..Len(expansion.dates) :
            LET date == expansion.dates[k]
            IN  /\ monthIndex(date) = monthIndex(baseDateTime) + k - 1
                /\ date <= endDateTime
                /\ timeOfDay(date) = expansion.time
                /\ getDate(baseDateTime) <= daysInMonth(getFullYear(date), getMonth(date))
                      => getDate(date) = getDate(baseDateTime)

\* C23: for every customDays list the form can build, in whatever order the
\* days were clicked, each date after the start date and up to the end date
\* whose weekday is in customDays gets exactly one occurrence, at the
\* template's time of day, and no other date after the start date gets one.
C23_CustomOnePerQualifyingDay ==
    (/\ expansion.called
     /\ expansion.returned
     /\ expansion.type = "custom"
     /\ expansion.customDays # <<>>) =>
        LET later == SelectSeq(expansion.dates, LAMBDA date : date > baseDateTime)
            qualifying == {d * Day + expansion.time :
                              d \in {e \in (expansion.date + 1)..expansion.endDate :
                                        e % 7 \in Range(expansion.customDays)}}
        IN  /\ Range(later) = qualifying
            /\ Len(later) = Cardinality(qualifying)

----------------------------------------------------------------------------
(* Properties of the identifiers, checked under Spec                       *)

idsInOrder(rs) == [i \in 1..Len(rs) |-> rs[i].id]

\* C24: the occurrences of the store have pairwise distinct, defined
\* identifiers, and no step changes the identifier of an occurrence: a step
\* that removes none keeps the identifiers it found, each in its place, and a
\* step that removes some keeps the others in their order.
C24_IdsUniqueAndImmutable ==
    [][/\ \A i, j \in 1..Len(reminders') :
             /\ reminders'[i].id >= 1
             /\ i # j => reminders'[i].id # reminders'[j].id
       /\ IF Len(reminders') >= Len(reminders)
          THEN SubSeq(idsInOrder(reminders'), 1, Len(reminders)) = idsInOrder(reminders)
          ELSE idsInOrder(reminders')
                  = SelectSeq(idsInOrder(reminders), LAMBDA id : id \in ids(reminders'))]_vars

\* the backfill of the per-day slots has just added an occurrence to a store
\* that held one
C24_Witness ==
    /\ Len(reminders) >= 2
    /\ reminders[Len(reminders)].recurrence.type = "per-day"
    /\ Len(bannerMessages) = 1
    /\ bannerMessages[1].text = "New reminder set"
    /\ Len(observed) = 2


(***************************************************************************)
(* The banners on their own: tab changes and store calls that show a       *)
(* banner while earlier timers are still pending.                          *)
(***************************************************************************)

\* the timers that may be pending at once
MaxTimers == 3

\* store.ts lines 131-132: the list is emptied, no timer is cancelled
clearBanners(st) == publish([st EXCEPT !.bannerMessages = <<>>])

\* TabBar.tsx lines 13-18
tabs ==
    << [id |-> "today", message |-> "Viewing today's tasks"],
       [id |-> "next", message |-> "Planning ahead - viewing upcoming tasks"],
       [id |-> "past", message |-> "Looking back at your history"],
       [id |-> "settings", message |-> "Customize your experience"] >>

\* TabBar.tsx lines 20-27 (onTabChange is the parent's callback: it selects
\* the view and touches no state of the store)
handleTabChange(st, tab) ==
    LET cleared == clearBanners(st)
        selectedTab == SelectSeq(tabs, LAMBDA t : t.id = tab)
    IN  IF selectedTab # <<>>
        THEN showBanner(cleared, selectedTab[1].message, "info")
        ELSE cleared

InitBanners ==
    /\ reminders = <<>>
    /\ bannerMessages = <<>>
    /\ observed = <<>>
    /\ timers = <<>>
    /\ completingAll = NoCompleteAll
    /\ now = 0
    /\ expansion = Idle

\* TabBar.tsx line 35: a tab button is pressed
TabChange ==
    \E i \in 1..Len(tabs) :
        /\ Len(timers) < MaxTimers
        /\ commit(handleTabChange(store, tabs[i].id))
        /\ UNCHANGED <<completingAll, now, expansion>>

\* store.ts lines 118-126, called while earlier banners are still shown
CallShowBanner ==
    \E text \in {"New reminder set", "Reminder archived"} :
        /\ Len(timers) < MaxTimers
        /\ commit(showBanner(store, text, "success"))
        /\ UNCHANGED <<completingAll, now, expansion>>

NextBanners ==
    \/ TabChange
    \/ CallShowBanner
    \/ RemoveBanner

\* setTimeout: a timer that was started fires
SpecBanners == InitBanners /\ [][NextBanners]_vars /\ WF_vars(RemoveBanner)

bannerIds(bs) == {bs[i].id : i \in 1..Len(bs)}

\* C25, the timers: the banners that are shown have pairwise distinct ids and
\* each a pending timer; the step in which a timer fires removes the banner
\* the timer was started for, if that banner is still shown, and leaves every
\* other banner, those shown later included, where it was; a banner leaves
\* the list only because its timer fired or because the list was cleared by
\* a tab change.
C25_TimerRemovesOwnBanner ==
    [][/\ \A i, j \in 1..Len(bannerMessages') :
             /\ i # j => bannerMessages'[i].id # bannerMessages'[j].id
             /\ bannerMessages'[i].id \in Range(timers')
       /\ (timers # <<>> /\ timers' = Tail(timers))
             => bannerMessages'
                   = SelectSeq(bannerMessages, LAMBDA msg : msg.id # Head(timers))
       /\ \A msg \in Range(bannerMessages) \ Range(bannerMessages') :
             \/ timers # <<>> /\ timers' = Tail(timers) /\ msg.id = Head(timers)
             \/ /\ Len(bannerMessages') = 1
                /\ bannerMessages'[1].type = "info"
                /\ timers' = Append(timers, bannerMessages'[1].id)]_vars

\* C25: every banner that showBanner added is eventually removed, by its own
\* timer or earlier by clearBanners, and a timer that fires removes the banner
\* with its own id and no other, whatever was cleared or shown since it was
\* started.
C25_BannerExpiry ==
    /\ C25_TimerRemovesOwnBanner
    /\ \A id \in 1..(MaxTimers + 2) :
          (id \in bannerIds(bannerMessages)) ~> (id \notin bannerIds(bannerMessages))

\* the timer of a banner that a tab change had cleared has fired while the
\* banner of that tab change, the second id, is shown: the banner is still there
C25_Witness ==
    /\ timers = <<2>>
    /\ Len(bannerMessages) = 1
    /\ bannerMessages[1].id = 2
    /\ bannerMessages[1].type = "info"
    /\ Len(observed) = 1


(***************************************************************************)
(* The per-day groups of the Today view on their own: the store is loaded  *)
(* with open per-day occurrences of one title, as one or several templates *)
(* of that title leave them, and the occurrences are completed and         *)
(* backfilled.                                                             *)
(***************************************************************************)

\* the occurrences of the loaded group
MaxGroup == 3

\* Thursday 5 January 2023 at 23:45
PerDayClock == 4 * Day + 23 * Hour + 45 * Minute

\* 23:00 and 23:30 of that Thursday
PerDayDatetimes == {4 * Day + 23 * Hour, 4 * Day + 23 * Hour + 30 * Minute}

\* ReminderForm.tsx lines 350-367: the intervals of the templates
PerDayIntervals == {30, 60}

PerDayStores ==
    UNION {[1..n -> PerDayDatetimes \X PerDayIntervals] : n \in 1..MaxGroup}

InitPerDay ==
    /\ \E loaded \in PerDayStores :
          reminders = [i \in 1..Len(loaded) |->
                          [newReminder("b", loaded[i][1], "per-day", loaded[i][2])
                              EXCEPT !.id = i]]
    /\ bannerMessages = <<>>
    /\ observed = <<>>
    /\ timers = <<>>
    /\ completingAll = NoCompleteAll
    /\ now = PerDayClock
    /\ expansion = Idle

NextPerDay ==
    \/ EnsureSlots
    \/ CompleteSlot
    \/ RemoveBanner

SpecPerDay == InitPerDay /\ [][NextPerDay]_vars

\* the store after one pass of the backfill effect over the groups that
\* the Today view renders from the occurrences rs
backfilled(rs, clock) ==
    LET rendered == todaySections(rs, clock).perDayReminders
    IN  ensureSlots([reminders |-> rs, bannerMessages |-> <<>>, observed |-> <<>>,
                     timers |-> <<>>, held |-> {}],
                    rendered, titlesOf(rendered, {}), clock).reminders

\* C26: one pass of the backfill keeps the occurrences there are and adds
\* occurrences only at slots of today's slot sequence of their group at which
\* the group had no member of the same minute, no two of them in the same
\* minute; after the pass every slot of every group has an occurrence of its
\* minute, and a second pass adds nothing.
C26_BackfillIdempotent ==
    LET rendered == todaySections(reminders, now).perDayReminders
        after == backfilled(reminders, now)
        renderedAfter == todaySections(after, now).perDayReminders
        added == SubSeq(after, Len(reminders) + 1, Len(after))
    IN  /\ Len(after) >= Len(reminders)
        /\ SubSeq(after, 1, Len(reminders)) = reminders
        /\ \A k \in 1..Len(added) :
              LET group == SelectSeq(rendered, LAMBDA r : r.title = added[k].title)
              IN  /\ group # <<>>
                  /\ added[k].datetime \in Range(calculateTimeSlots(group[1], now))
                  /\ \A i \in 1..Len(group) :
                        ~isSameMinute(group[i].datetime, added[k].datetime)
                  /\ \A j \in 1..Len(added) :
                        (j # k /\ added[j].title = added[k].title)
                            => ~isSameMinute(added[j].datetime, added[k].datetime)
        /\ \A title \in Range(titlesOf(renderedAfter, {})) :
              LET group == SelectSeq(renderedAfter, LAMBDA r : r.title = title)
              IN  \A slot \in Range(calculateTimeSlots(group[1], now)) :
                     \E i \in 1..Len(group) : isSameMinute(group[i].datetime, slot)
        /\ backfilled(after, now) = after

\* the backfill has added the 23:30 that a group of one occurrence at 23:00
\* lacked, and finds nothing to add any more
C26_Witness ==
    /\ Len(reminders) = 2
    /\ reminders[1].datetime = 4 * Day + 23 * Hour
    /\ reminders[2].datetime = 4 * Day + 23 * Hour + 30 * Minute
    /\ Len(bannerMessages) = 1
    /\ bannerMessages[1].text = "New reminder set"
    /\ backfilled(reminders, now) = reminders


----------------------------------------------------------------------------
(* Termination of the expansion, checked under SpecExpand                  *)

\* C27: for every configuration the form submits, generateRecurringDates
\* returns, after fewer than MaxDates turns of its loop, a sequence of dates
\* in which every date is strictly later than the one before it.
C27_ExpansionTerminates ==
    expansion.called
        => /\ expansion.returned
           /\ Len(expansion.dates) < MaxDates
           /\ \A i \in 1..(Len(expansion.dates) - 1) :
                 expansion.dates[i] < expansion.dates[i + 1]


----------------------------------------------------------------------------
(* The progress of a per-day group, checked under SpecPerDay               *)

\* C28: for every per-day group that PerDayReminderGroup shows, the number
\* of completed occurrences of today is at most the number of slots computed
\* from the group's first member.
C28_ProgressBound ==
    \A title \in Range(titlesOf(todaySections(reminders, now).perDayReminders, {})) :
        LET relevant == getRelevantReminders(groupReminders(reminders, now, title), now)
        IN  relevant.completedCount <= relevant.totalSlots


----------------------------------------------------------------------------
(* The commit of Complete All, checked under Spec                          *)

\* C29: the commit of a Complete All, whatever was deleted since the click,
\* leaves the store with the same occurrences in the same order and re-creates
\* none; an occurrence of the snapshot that is still there differs from what
\* it was in its completed flag only, which is set, and every other
\* occurrence is what it was.
C29_CommitTouchesCompletedOnly ==
    [][(completingAll # NoCompleteAll /\ completingAll' = NoCompleteAll)
          => /\ Len(reminders') = Len(reminders)
             /\ \A i \in 1..Len(reminders) :
                   reminders'[i] =
                       IF reminders[i].id \in Range(completingAll.ids)
                       THEN [reminders[i] EXCEPT !.completed = TRUE]
                       ELSE reminders[i]]_vars


----------------------------------------------------------------------------
(* The frame of updateReminder, checked under SpecStore                    *)

\* partial reminders that the handlers pass to updateReminder
UpdatePartials ==
    {[completed |-> TRUE], [completed |-> FALSE], [title |-> "b"],
     [completed |-> TRUE, silent |-> TRUE]}

\* rs and after have the same occurrences in the same order, except that the
\* occurrences with the given id have the fields of the partial
onlyFieldsOf(rs, after, id, partial) ==
    /\ Len(after) = Len(rs)
    /\ \A i \in 1..Len(rs) :
          /\ DOMAIN after[i] = DOMAIN rs[i]
          /\ \A f \in DOMAIN rs[i] :
                after[i][f] = IF rs[i].id = id /\ f \in DOMAIN partial
                              THEN partial[f]
                              ELSE rs[i][f]

\* C30: updateReminder(id, fields) gives the occurrence with that id the
\* fields given and changes nothing else: the other fields of that occurrence,
\* every other occurrence, the number of occurrences and their order stay;
\* this holds of every update the store performs and of every update it
\* could perform; toggling completed twice on one occurrence gives back the
\* reminders there were.
C30_UpdateFrame ==
    /\ [][\A id \in callerIds, completed \in BOOLEAN :
             (quiet /\ commit(updateReminder(store, id, [completed |-> completed])))
                 => onlyFieldsOf(reminders, reminders', id, [completed |-> completed])]_vars
    /\ [](\A id \in callerIds :
             /\ \A partial \in UpdatePartials :
                   onlyFieldsOf(reminders, updateReminder(store, id, partial).reminders,
                                id, partial)
             /\ id \in ids(reminders)
                   => LET completed == find(reminders, id).completed
                          once == updateReminder(store, id, [completed |-> ~completed])
                          twice == updateReminder(once, id, [completed |-> completed])
                      IN  /\ find(once.reminders, id).completed = ~completed
                          /\ twice.reminders = reminders)

\* the second of two occurrences has been completed, the first is open
C30_Witness ==
    /\ Len(reminders) = 2
    /\ ~reminders[1].completed
    /\ reminders[2].completed
    /\ Len(bannerMessages) = 1
    /\ bannerMessages[1].text = "Task completed"

====
